---- MODULE Spec2Model ----
(***************************************************************************)
(* A model of the cursor iteration protocol (src/src/cursor/               *)
(* opened_cursor.rs) and of the callback-driven streaming protocol         *)
(* (src/src/streamer.rs) of rustrdf-rs.                                    *)
(*                                                                         *)
(* The native engine is the environment: every native call may raise an    *)
(* engine exception, and what it returns otherwise follows the interface   *)
(* table of the specification (section 6).  Engine-owned memory is a       *)
(* sequence of cells; a pointer is a 1-based position in it and NULL is 0. *)
(***************************************************************************)
EXTENDS Integers, Sequences, FiniteSets, TLC

(***************************************************************************)
(* Bounds of the model.                                                    *)
(***************************************************************************)
MaxRows == 3        \* rows the store matches
MaxArity == 2       \* answer columns
MaxSlots == 2       \* value slots the engine keeps before the sentinel
MaxExtra == 1       \* advance() calls made after the cursor is exhausted
MaxWrites == 2      \* write callbacks of one evaluate call
MaxFlushes == 1     \* flush callbacks of one evaluate call
MaxChunk == 2       \* bytes of one write callback
MaxHandles == 2     \* parameters handles the engine hands out
MaxValues == 2      \* Parameters values ever holding one handle

NULL == 0

\* The multiplicities a row of the store may have.
Multiplicities == 1..3

\* What the memory after the buffer's sentinel holds: not a sentinel.
Beyond == 9

(***************************************************************************)
(* Result<T, RDFStoreError> and Option<T>.                                 *)
(***************************************************************************)
Ok(v) == [ok |-> TRUE, val |-> v]
Err(e) == [ok |-> FALSE, err |-> e]
Some(v) == [some |-> TRUE, v |-> v]
None == [some |-> FALSE]

Exception(action) == [kind |-> "Exception", action |-> action]
CannotGetAnyArgumentIndexes(q) == [kind |-> "CannotGetAnyArgumentIndexes", query |-> q]
Unknown == [kind |-> "Unknown"]

\* database_call!(action, f): the engine's exception pointer, converted.
DatabaseCall(action, exc, out) ==
    IF exc THEN Err(Exception(action)) ELSE Ok(out)

VARIABLES
    \* ---- the store and the engine's cursor ----
    rowMults,       \* multiplicity of each matching row, in order
    nSlots,         \* value slots of the arguments buffer
    eArity,         \* the query's arity
    idxMem,         \* the engine's index table, then the cell after it
    pos,            \* row the engine's cursor is on (0: not opened)
    buf,            \* the arguments buffer: values, sentinel, cell after it
    \* ---- the client ----
    pc,             \* position of OpenedCursor::new, then "opened" / "failed"
    calls,          \* native calls the current (or last) operation issued, in order
    raised,         \* whether the last native call raised an exception
    multiplicity,   \* local of new(): the first row's multiplicity
    arity,          \* local of new()
    arguments_buffer, \* local of new(): the slice [ptr, len]
    indexes,        \* local of argument_indexes(): the out-pointer
    scanReads,      \* cells the arguments-buffer scan dereferenced
    oc,             \* the OpenedCursor, once constructed
    advLog,         \* values returned by successful advance() calls
    ret             \* what the last client operation returned

VARIABLES
    \* ---- Streamer::run ----
    spc,            \* position of evaluate(): "setup", "ready", "in_call",
                    \* "call_returned", "released", "done"; or "aborted",
                    \* "unwound" once a callback has panicked
    context,        \* the heap cell of the RefToSelf box
    stream,         \* the heap cell of the COutputStream box
    emitted,        \* bytes the engine handed to the write callback, in order
    nFlush,         \* flush callbacks the engine made
    sink,           \* bytes the sink took, in order
    sinkCalls,      \* calls made on the sink (write and flush)
    sinkErr,        \* the call on which the sink reported an error, if any
    staleAccess,    \* a callback read the context after the call returned
    result,         \* local of evaluate(): what the native call returned
    sret,           \* what Streamer::run returned
    ncalls          \* native calls evaluate() issued, in order

VARIABLES
    \* ---- OpenedCursor::update_and_commit / execute_and_rollback ----
    txpc,           \* "idle", "in_closure" (the closure f runs), "done"
    txOp,           \* the wrapper called last
    tx,             \* the Transaction the wrapper began
    txCalls,        \* transaction boundary calls the wrapper issued, in order
    txRaised,       \* whether the last boundary call raised an exception
    fres,           \* what the closure returned
    tret            \* what the wrapper returned

txVars == <<txpc, txOp, tx, txCalls, txRaised, fres, tret>>

VARIABLES
    \* ---- Parameters values and the engine's parameters handles ----
    allocated,      \* handles CParameters_newEmptyParameters has handed out
    owners,         \* per handle, the Parameters values whose inner it is
    destroys,       \* per handle, the CParameters_destroy calls made on it
    usedDestroyed,  \* a destroyed handle was passed to a native call
    pret            \* what the last Parameters operation returned

parVars == <<allocated, owners, destroys, usedDestroyed, pret>>

streamerVars == <<spc, context, stream, emitted, nFlush, sink, sinkCalls,
                  sinkErr, staleAccess, result, sret, ncalls>>

cursorVars == <<rowMults, nSlots, eArity, idxMem, pos, buf, pc, calls, raised,
                multiplicity, arity, arguments_buffer, indexes, scanReads, oc,
                advLog, ret>>

NoCursor == [opened |-> FALSE]
NoRet == [op |-> "none"]
Query == "SELECT"

(***************************************************************************)
(* The engine.                                                             *)
(***************************************************************************)
\* The identifier the store holds in slot s of row r: never zero, and
\* different for every row and slot.
RowValue(r, s) == (r - 1) * nSlots + s

\* The buffer while the cursor is on row r: the row's values, the sentinel,
\* and the memory after it.  With no row (exhausted) the slots hold zero.
RowBuffer(r) ==
    [s \in 1..(nSlots + 2) |->
        IF s <= nSlots
        THEN (IF r <= Len(rowMults) THEN RowValue(r, s) ELSE 0)
        ELSE IF s = nSlots + 1 THEN 0 ELSE Beyond]

\* The multiplicity of row r; 0 past the last row.
RowMult(r) == IF r <= Len(rowMults) THEN rowMults[r] ELSE 0

(***************************************************************************)
(* Slices over engine memory: std::slice::from_raw_parts and <[T]>::get.   *)
(***************************************************************************)
Slice(ptr, len) == [ptr |-> ptr, len |-> len]

SliceGet(mem, slice, i) ==
    IF i < slice.len THEN Some(mem[slice.ptr + i]) ELSE None

(***************************************************************************)
(* OpenedCursor::new, step by step.                                        *)
(***************************************************************************)
\* NewStep without the `?` of the arity step.
NewStepNoQuestionMark(step, res) ==
    IF ~res.ok /\ step # "arity" THEN "failed"
    ELSE CASE step = "open" -> "arity"
           [] step = "arity" -> "arguments_buffer"
           [] step = "arguments_buffer" -> "argument_indexes"
           [] step = "argument_indexes" -> "opened"

\* The `?` after each step of new(): on to the next step, or out.
NewStep(step, res) ==
    IF ~res.ok THEN "failed"
    ELSE CASE step = "open" -> "arity"
           [] step = "arity" -> "arguments_buffer"
           [] step = "arguments_buffer" -> "argument_indexes"
           [] step = "argument_indexes" -> "opened"

\* OpenedCursor::open
OpenResult(exc, m) == DatabaseCall("opening a cursor", exc, m)

\* OpenedCursor::arity
ArityResult(exc, a) == DatabaseCall("getting the arity", exc, a)

\* The scan loop of arguments_buffer(): count, then look, then step.
RECURSIVE ScanLoop(_, _, _, _)
ScanLoop(mem, p, count, reads) ==
    IF p = NULL THEN [count |-> count, reads |-> reads]
    ELSE IF mem[p] = 0 THEN [count |-> count + 1, reads |-> reads \cup {p}]
    ELSE ScanLoop(mem, p + 1, count + 1, reads \cup {p})

\* arguments_buffer() exposing all the cells the scan counted.
ArgumentsBufferWithSentinel(exc, mem, buffer) ==
    LET call == DatabaseCall("getting the arguments buffer", exc, buffer) IN
    IF ~call.ok THEN call
    ELSE Ok(Slice(buffer, ScanLoop(mem, buffer, 0, {}).count))

\* OpenedCursor::arguments_buffer.  The engine answers a pointer to a
\* sentinel-terminated run, never NULL, so count >= 1 and the usize
\* subtraction count - 1 does not wrap.
ArgumentsBufferResult(exc, mem, buffer) ==
    LET call == DatabaseCall("getting the arguments buffer", exc, buffer) IN
    IF ~call.ok THEN call
    ELSE Ok(Slice(buffer, ScanLoop(mem, buffer, 0, {}).count - 1))

\* argument_indexes() without its null check.
ArgumentIndexesNoNullCheck(exc, ptr, a) ==
    LET call == DatabaseCall("getting the argument-indexes", exc, ptr) IN
    IF ~call.ok THEN call ELSE Ok(Slice(ptr, a))

\* argument_indexes() taking the length of the table from the pointer.
ArgumentIndexesWrongLen(exc, ptr, a) ==
    LET call == DatabaseCall("getting the argument-indexes", exc, ptr) IN
    IF ~call.ok THEN call
    ELSE IF ptr = NULL THEN Err(CannotGetAnyArgumentIndexes(Query))
    ELSE Ok(Slice(ptr, ptr))

\* OpenedCursor::argument_indexes
ArgumentIndexesResult(exc, ptr, a) ==
    LET call == DatabaseCall("getting the argument-indexes", exc, ptr) IN
    IF ~call.ok THEN call
    ELSE IF ptr = NULL THEN Err(CannotGetAnyArgumentIndexes(Query))
    ELSE Ok(Slice(ptr, a))

Open ==
    /\ pc = "open"
    /\ \E exc \in BOOLEAN :
        LET r == OpenResult(exc, RowMult(1)) IN
        /\ calls' = Append(calls, "CCursor_open")
        /\ raised' = exc
        /\ pc' = NewStep("open", r)
        /\ IF r.ok
           THEN /\ multiplicity' = r.val
                /\ pos' = 1
                /\ buf' = RowBuffer(1)
                /\ UNCHANGED ret
           ELSE /\ ret' = [op |-> "new", res |-> r]
                /\ UNCHANGED <<multiplicity, pos, buf>>
    /\ UNCHANGED <<streamerVars, txVars, parVars>>
    /\ UNCHANGED <<rowMults, nSlots, eArity, idxMem, arity,
                   arguments_buffer, indexes, scanReads, oc, advLog>>

Arity ==
    /\ pc = "arity"
    /\ \E exc \in BOOLEAN :
        LET r == ArityResult(exc, eArity) IN
        /\ calls' = Append(calls, "CCursor_getArity")
        /\ raised' = exc
        /\ pc' = NewStep("arity", r)
        /\ IF r.ok
           THEN arity' = r.val /\ UNCHANGED ret
           ELSE ret' = [op |-> "new", res |-> r] /\ UNCHANGED arity
    /\ UNCHANGED <<streamerVars, txVars, parVars>>
    /\ UNCHANGED <<rowMults, nSlots, eArity, idxMem, pos, buf,
                   multiplicity, arguments_buffer, indexes, scanReads, oc,
                   advLog>>

ArgumentsBuffer ==
    /\ pc = "arguments_buffer"
    /\ \E exc \in BOOLEAN :
        LET r == ArgumentsBufferResult(exc, buf, 1) IN
        /\ calls' = Append(calls, "CCursor_getArgumentsBuffer")
        /\ raised' = exc
        /\ pc' = NewStep("arguments_buffer", r)
        /\ IF r.ok
           THEN /\ arguments_buffer' = r.val
                /\ scanReads' = ScanLoop(buf, 1, 0, {}).reads
                /\ UNCHANGED ret
           ELSE /\ ret' = [op |-> "new", res |-> r]
                /\ UNCHANGED <<arguments_buffer, scanReads>>
    /\ UNCHANGED <<streamerVars, txVars, parVars>>
    /\ UNCHANGED <<rowMults, nSlots, eArity, idxMem, pos, buf,
                   multiplicity, arity, indexes, oc, advLog>>

ArgumentIndexes ==
    /\ pc = "argument_indexes"
    /\ \E exc \in BOOLEAN, ptr \in {NULL, 1} :
        LET out == IF exc THEN NULL ELSE ptr
            r == ArgumentIndexesResult(exc, out, arity) IN
        /\ calls' = Append(calls, "CCursor_getArgumentIndexes")
        /\ raised' = exc
        /\ indexes' = out
        /\ pc' = NewStep("argument_indexes", r)
        /\ IF r.ok
           THEN /\ oc' = [opened |-> TRUE,
                          arity |-> arity,
                          arguments_buffer |-> arguments_buffer,
                          argument_indexes |-> r.val]
                /\ ret' = [op |-> "new", res |-> Ok(<<"OpenedCursor", multiplicity>>)]
           ELSE /\ ret' = [op |-> "new", res |-> r]
                /\ UNCHANGED oc
    /\ UNCHANGED <<streamerVars, txVars, parVars>>
    /\ UNCHANGED <<rowMults, nSlots, eArity, idxMem, pos, buf,
                   multiplicity, arity, arguments_buffer, scanReads, advLog>>

(***************************************************************************)
(* OpenedCursor::resource_id and OpenedCursor::advance.                    *)
(***************************************************************************)
\* resource_id() reporting a term index outside the table as an absence.
ResourceIdLenient(c, bufMem, tblMem, term_index) ==
    LET argument_index == SliceGet(tblMem, c.argument_indexes, term_index) IN
    IF argument_index.some
    THEN LET resource_id == SliceGet(bufMem, c.arguments_buffer, argument_index.v) IN
         IF resource_id.some THEN Ok(Some(resource_id.v)) ELSE Ok(None)
    ELSE Ok(None)

\* resource_id() reading the buffer at the term index, not through the table.
ResourceIdDirect(c, bufMem, tblMem, term_index) ==
    LET argument_index == SliceGet(tblMem, c.argument_indexes, term_index) IN
    IF argument_index.some
    THEN LET resource_id == SliceGet(bufMem, c.arguments_buffer, term_index) IN
         IF resource_id.some THEN Ok(Some(resource_id.v)) ELSE Ok(None)
    ELSE Err(Unknown)

ResourceIdResult(c, bufMem, tblMem, term_index) ==
    LET argument_index == SliceGet(tblMem, c.argument_indexes, term_index) IN
    IF argument_index.some
    THEN LET resource_id == SliceGet(bufMem, c.arguments_buffer, argument_index.v) IN
         IF resource_id.some THEN Ok(Some(resource_id.v)) ELSE Ok(None)
    ELSE Err(Unknown)

ResourceId ==
    /\ pc = "opened"
    /\ \E term_index \in 0..MaxArity :
        ret' = [op |-> "resource_id", arg |-> term_index,
                res |-> ResourceIdResult(oc, buf, idxMem, term_index)]
    /\ calls' = <<>>
    /\ UNCHANGED <<streamerVars, txVars, parVars>>
    /\ UNCHANGED <<rowMults, nSlots, eArity, idxMem, pos, buf, pc,
                   raised, multiplicity, arity, arguments_buffer, indexes,
                   scanReads, oc, advLog>>

\* advance() answering the multiplicity although the engine raised.
AdvanceResultSwallowed(exc, m) == Ok(m)

\* advance() returning its local as initialised, not as the engine set it.
AdvanceResultStale(exc, m) == DatabaseCall("advancing the cursor", exc, 0)

AdvanceResult(exc, m) == DatabaseCall("advancing the cursor", exc, m)

\* advance() scanning the replaced buffer for its sentinel again.
AdvanceFieldsRescanned(c, mem) ==
    [c EXCEPT !.arguments_buffer =
        Slice(c.arguments_buffer.ptr,
              ScanLoop(mem, c.arguments_buffer.ptr, 0, {}).count - 1)]

\* The fields of the OpenedCursor after advance(), the engine having left
\* mem in the arguments buffer: advance() assigns to none of them.
AdvanceFields(c, mem) == c

Advance ==
    /\ pc = "opened"
    /\ Len(advLog) < Len(rowMults) + MaxExtra
    /\ \E exc \in BOOLEAN :
        LET r == AdvanceResult(exc, RowMult(pos + 1)) IN
        /\ calls' = <<"CCursor_advance">>
        /\ raised' = exc
        /\ ret' = [op |-> "advance", res |-> r]
        /\ IF r.ok
           THEN /\ pos' = IF pos <= Len(rowMults) THEN pos + 1 ELSE pos
                /\ buf' = RowBuffer(pos + 1)
                /\ advLog' = Append(advLog, r.val)
                /\ oc' = AdvanceFields(oc, RowBuffer(pos + 1))
           ELSE UNCHANGED <<pos, buf, advLog, oc>>
    /\ UNCHANGED <<streamerVars, txVars, parVars>>
    /\ UNCHANGED <<rowMults, nSlots, eArity, idxMem, pc, multiplicity,
                   arity, arguments_buffer, indexes, scanReads>>

(***************************************************************************)
(* OpenedCursor::get_answer_variable_name.                                 *)
(***************************************************************************)
\* A panic leaving a safe function: no value is returned.
Panic == [ok |-> FALSE, panic |-> TRUE]

\* The C strings the engine may answer as a variable's name: bytes that are
\* UTF-8, and bytes that are not.
VariableNames(index) ==
    {[text |-> <<"v", index>>, utf8 |-> TRUE],
     [text |-> <<"v", index>>, utf8 |-> FALSE]}

\* OpenedCursor::get_answer_variable_name: the native call under
\* database_call!, then CStr::from_ptr(c_buf).to_str().unwrap().to_owned().
GetAnswerVariableNameResult(exc, c_buf) ==
    LET call == DatabaseCall("getting a variable name", exc, c_buf) IN
    IF ~call.ok THEN call
    ELSE IF c_buf.utf8 THEN Ok(c_buf.text) ELSE Panic

\* The engine resolves the names of the answer variables 0 .. arity - 1 and
\* raises an exception for any other index; it may raise one for these too.
GetAnswerVariableName ==
    /\ pc = "opened"
    /\ \E index \in 0..MaxArity, exc \in BOOLEAN :
       \E c_buf \in VariableNames(index) :
        /\ index >= eArity => exc
        /\ calls' = <<"CCursor_getAnswerVariableName">>
        /\ raised' = exc
        /\ ret' = [op |-> "get_answer_variable_name", arg |-> index,
                   res |-> GetAnswerVariableNameResult(exc, c_buf)]
    /\ UNCHANGED <<streamerVars, txVars, parVars>>
    /\ UNCHANGED <<rowMults, nSlots, eArity, idxMem, pos, buf, pc,
                   multiplicity, arity, arguments_buffer, indexes,
                   scanReads, oc, advLog>>

(***************************************************************************)
(* Streamer: the heap cells of the two boxes, the sink, the callbacks.     *)
(***************************************************************************)
\* The bytes of the model.
Bytes == {1, 2}

NoSinkErr == [at |-> 0, op |-> "none"]

NoCell == [allocated |-> FALSE, dropped |-> 0]

\* Box::into_raw(Box::new(v)): a heap allocation holding a live value, owned
\* by nobody.
BoxIntoRaw == [allocated |-> TRUE, dropped |-> 0]

\* ptr::drop_in_place(p): runs the destructor of the value p points to.  The
\* allocation the value sits in is not given back.
DropInPlace(cell) == [cell EXCEPT !.dropped = @ + 1]

\* ptr_to_cstr(data, n) and to_bytes_with_nul(): the byte range the engine
\* passed, as a slice.
PtrToCstr(data) == Ok(data)

\* What a call of std::io::Write::write(data) may answer: Ok(n) for any
\* n <= data.len(), having taken the first n bytes, or an error.
WriteOutcomes(data) ==
    {[ok |-> TRUE, n |-> n] : n \in 0..Len(data)} \cup {[ok |-> FALSE]}

\* What a call of std::io::Write::flush() may answer.
FlushOutcomes == {[ok |-> TRUE], [ok |-> FALSE]}

\* StreamerWithCallbacks::write: "true", or a panic.
StreamerWrite(outcome) ==
    IF outcome.ok THEN [panic |-> FALSE, ret |-> TRUE] ELSE [panic |-> TRUE]

\* StreamerWithCallbacks::flush: "true", or a panic.
StreamerFlush(outcome) ==
    IF outcome.ok THEN [panic |-> FALSE, ret |-> TRUE] ELSE [panic |-> TRUE]

\* Streamer::write_function
WriteFunction(data, outcome) ==
    LET c == PtrToCstr(data) IN
    IF c.ok THEN StreamerWrite(outcome) ELSE [panic |-> FALSE, ret |-> FALSE]

\* A panic leaving an extern "C" callback has no defined behaviour.  The
\* process aborts; or the panic unwinds through the engine's frames and out
\* of run(); or the engine catches it as a foreign exception and ends the
\* native call with an exception of its own.
PanicOutcomes == {"abort", "unwind", "caught"}

EvaluateSetupSteps == {"statement_text", "parameters", "fact_domain", "format_name"}

StreamerInit ==
    /\ spc = "setup"
    /\ context = NoCell
    /\ stream = NoCell
    /\ emitted = <<>>
    /\ nFlush = 0
    /\ sink = <<>>
    /\ sinkCalls = 0
    /\ sinkErr = NoSinkErr
    /\ staleAccess = FALSE
    /\ result = NoRet
    /\ sret = NoRet
    /\ ncalls = <<>>

\* The streamer while the cursor specification runs: never started.
StreamerIdle == StreamerInit

\* The native calls evaluate() has issued when its setup failed at step, or
\* went through ("none").  Parameters::empty() allocates the handle,
\* fact_domain() sets one string on it, and a Parameters value that goes out
\* of scope destroys it.
SetupCalls(step) ==
    CASE step = "statement_text" -> <<>>
      [] step = "parameters" -> <<"CParameters_newEmptyParameters">>
      [] step \in {"fact_domain", "format_name", "base_iri"} ->
            <<"CParameters_newEmptyParameters", "CParameters_setString",
              "CParameters_destroy">>
      [] OTHER -> <<"CParameters_newEmptyParameters", "CParameters_setString">>

\* The error evaluate() returns when its setup fails at step.
SetupError(step) ==
    CASE step = "parameters" -> Exception("Allocating parameters")
      [] step = "fact_domain" -> Exception("Setting parameter \"fact-domain\"=\"all\"")
      [] OTHER -> [kind |-> "Setup", step |-> step]

\* evaluate() going on to the boxes whatever its setup answered.
AfterSetupNoQuestionMark(res) == "ready"

\* The `?` of lines 80-83: evaluate() goes on when the setup succeeded and
\* returns the error when it did not.
AfterSetup(res) == IF res.ok THEN "ready" ELSE "done"

\* evaluate(), lines 80-92: the statement text, the parameters, the format
\* name; any of them may fail, and evaluate() returns the error.  Then the
\* base IRI, whose conversion panics when it fails.
Setup ==
    /\ spc = "setup"
    /\ \/ /\ spc' = AfterSetup(Ok("setup"))
          /\ ncalls' = SetupCalls("none")
          /\ UNCHANGED sret
       \/ \E step \in EvaluateSetupSteps :
          LET r == Err(SetupError(step)) IN
          /\ spc' = AfterSetup(r)
          /\ ncalls' = SetupCalls(step)
          /\ sret' = r
       \/ /\ spc' = "panicked"
          /\ ncalls' = SetupCalls("base_iri")
          /\ sret' = [op |-> "panic"]
    /\ UNCHANGED <<context, stream, emitted, nFlush, sink, sinkCalls,
                   sinkErr, staleAccess, result>>
    /\ UNCHANGED <<cursorVars, txVars, parVars>>

\* evaluate(), lines 94-104: the two boxes; then the native call begins.
Allocate ==
    /\ spc = "ready"
    /\ context' = BoxIntoRaw
    /\ stream' = BoxIntoRaw
    /\ spc' = "in_call"
    /\ ncalls' = Append(ncalls, "CDataStoreConnection_evaluateStatement")
    /\ UNCHANGED <<emitted, nFlush, sink, sinkCalls, sinkErr, staleAccess,
                   result, sret>>
    /\ UNCHANGED <<cursorVars, txVars, parVars>>

\* What a panicking callback leads to.
Panicked(outcome) ==
    /\ outcome \in PanicOutcomes
    /\ CASE outcome = "abort" ->
              spc' = "aborted" /\ UNCHANGED <<result, sret>>
         [] outcome = "unwind" ->
              spc' = "unwound" /\ sret' = [op |-> "panic"] /\ UNCHANGED result
         [] outcome = "caught" ->
              /\ spc' = "call_returned"
              /\ result' = Err(Exception("evaluating a statement"))
              /\ UNCHANGED sret

\* The engine calls writeFn(context, data, n) during the native call.
EngineWrite ==
    /\ spc = "in_call"
    /\ sinkCalls - nFlush < MaxWrites
    /\ \E n \in 1..MaxChunk : \E data \in [1..n -> Bytes] :
       \E outcome \in WriteOutcomes(data) : \E panic \in PanicOutcomes :
          LET r == WriteFunction(data, outcome) IN
          /\ emitted' = emitted \o data
          /\ sinkCalls' = sinkCalls + 1
          /\ staleAccess' = (staleAccess \/ context.dropped > 0 \/ ~context.allocated)
          /\ IF r.panic
             THEN /\ Panicked(panic)
                  /\ sinkErr' = [at |-> sinkCalls + 1, op |-> "write"]
                  /\ UNCHANGED sink
             ELSE /\ sink' = sink \o SubSeq(data, 1, outcome.n)
                  /\ UNCHANGED <<spc, sinkErr, result, sret>>
    /\ UNCHANGED <<context, stream, nFlush, ncalls>>
    /\ UNCHANGED <<cursorVars, txVars, parVars>>

\* The engine calls flushFn(context) during the native call.
EngineFlush ==
    /\ spc = "in_call"
    /\ nFlush < MaxFlushes
    /\ \E outcome \in FlushOutcomes : \E panic \in PanicOutcomes :
          LET r == StreamerFlush(outcome) IN
          /\ nFlush' = nFlush + 1
          /\ sinkCalls' = sinkCalls + 1
          /\ staleAccess' = (staleAccess \/ context.dropped > 0 \/ ~context.allocated)
          /\ IF r.panic
             THEN /\ Panicked(panic)
                  /\ sinkErr' = [at |-> sinkCalls + 1, op |-> "flush"]
             ELSE UNCHANGED <<spc, sinkErr, result, sret>>
    /\ UNCHANGED <<context, stream, emitted, sink, ncalls>>
    /\ UNCHANGED <<cursorVars, txVars, parVars>>

\* The native evaluate call returns, with an exception or without.
EngineReturn ==
    /\ spc = "in_call"
    /\ \E exc \in BOOLEAN :
          result' = DatabaseCall("evaluating a statement", exc, "unit")
    /\ spc' = "call_returned"
    /\ UNCHANGED <<context, stream, emitted, nFlush, sink, sinkCalls,
                   sinkErr, staleAccess, sret, ncalls>>
    /\ UNCHANGED <<cursorVars, txVars, parVars>>

\* evaluate(), lines 122-125.
Release ==
    /\ spc = "call_returned"
    /\ context' = DropInPlace(context)
    /\ stream' = DropInPlace(stream)
    /\ spc' = "released"
    /\ UNCHANGED <<emitted, nFlush, sink, sinkCalls, sinkErr, staleAccess,
                   result, sret, ncalls>>
    /\ UNCHANGED <<cursorVars, txVars, parVars>>

\* evaluate(), lines 127-130: `result?`, then Ok(self); the parameters go
\* out of scope either way.
Inspect ==
    /\ spc = "released"
    /\ sret' = IF result.ok THEN Ok("Streamer") ELSE result
    /\ ncalls' = Append(ncalls, "CParameters_destroy")
    /\ spc' = "done"
    /\ UNCHANGED <<context, stream, emitted, nFlush, sink, sinkCalls,
                   sinkErr, staleAccess, result>>
    /\ UNCHANGED <<cursorVars, txVars, parVars>>

StreamerNext ==
    \/ Setup
    \/ Allocate
    \/ EngineWrite
    \/ EngineFlush
    \/ EngineReturn
    \/ Release
    \/ Inspect

(***************************************************************************)
(* Transaction, and the two wrappers of OpenedCursor over it.              *)
(***************************************************************************)
NoTx == [kind |-> "none"]

\* self.cursor.connection
CursorConnection == "cursor.connection"

\* Transaction::begin_read_only / begin_read_write: a new transaction scope
\* on the connection, or the engine's error.
TxBegin(kind, conn, exc) ==
    IF exc THEN Err(Exception("begin " \o kind))
    ELSE Ok([kind |-> kind, conn |-> conn, state |-> "active"])

\* Transaction::update_and_commit(f), after f has returned: commit when f
\* succeeded, roll back when it failed and propagate its error.  A commit the
\* engine rejects is reported although f succeeded.
TxUpdateAndCommit(t, f, exc) ==
    IF f.ok
    THEN [calls |-> <<"commit">>,
          tx |-> IF exc THEN t ELSE [t EXCEPT !.state = "committed"],
          ret |-> IF exc THEN Err(Exception("commit")) ELSE f]
    ELSE [calls |-> <<"rollback">>,
          tx |-> IF exc THEN t ELSE [t EXCEPT !.state = "rolled-back"],
          ret |-> f]

\* Transaction::execute_and_rollback(f), after f has returned: roll back
\* whatever f returned.  A rollback the engine rejects is reported although
\* f succeeded.
TxExecuteAndRollback(t, f, exc) ==
    [calls |-> <<"rollback">>,
     tx |-> IF exc THEN t ELSE [t EXCEPT !.state = "rolled-back"],
     ret |-> IF f.ok /\ exc THEN Err(Exception("rollback")) ELSE f]

\* update_and_commit() beginning a read-only transaction.
UpdateAndCommitReadOnly ==
    [op |-> "update_and_commit", kind |-> "read-only", conn |-> CursorConnection,
     finish |-> "update_and_commit"]

\* OpenedCursor::update_and_commit: which transaction it begins, on what,
\* and how it ends it.
UpdateAndCommitPlan ==
    [op |-> "update_and_commit", kind |-> "read-write", conn |-> CursorConnection,
     finish |-> "update_and_commit"]

\* execute_and_rollback() ending its transaction as update_and_commit() does.
ExecuteAndRollbackCommits ==
    [op |-> "execute_and_rollback", kind |-> "read-only", conn |-> CursorConnection,
     finish |-> "update_and_commit"]

\* OpenedCursor::execute_and_rollback: which transaction it begins, on what,
\* and how it ends it.
ExecuteAndRollbackPlan ==
    [op |-> "execute_and_rollback", kind |-> "read-only", conn |-> CursorConnection,
     finish |-> "execute_and_rollback"]

\* What the closure f may return.
ClosureResults == {Ok("U"), Err([kind |-> "Closure"])}

TxInit ==
    /\ txpc = "idle"
    /\ txOp = [op |-> "none"]
    /\ tx = NoTx
    /\ txCalls = <<>>
    /\ txRaised = FALSE
    /\ fres = NoRet
    /\ tret = NoRet

\* The wrappers while another specification runs: never called.
TxIdle == TxInit

\* The first half of a wrapper: begin(..)?, then f starts.
WrapperBegins(plan) ==
    /\ pc = "opened"
    /\ txpc \in {"idle", "done"}
    /\ \E exc \in BOOLEAN :
        LET b == TxBegin(plan.kind, plan.conn, exc) IN
        /\ txOp' = plan
        /\ txCalls' = <<"begin">>
        /\ txRaised' = exc
        /\ fres' = NoRet
        /\ IF b.ok
           THEN tx' = b.val /\ txpc' = "in_closure" /\ tret' = NoRet
           ELSE tx' = NoTx /\ txpc' = "done" /\ tret' = b
    /\ UNCHANGED <<cursorVars, streamerVars, parVars>>

UpdateAndCommit == WrapperBegins(UpdateAndCommitPlan)

ExecuteAndRollback == WrapperBegins(ExecuteAndRollbackPlan)

\* The second half of a wrapper: f returns, the transaction is ended, the
\* wrapper returns.
ClosureReturns ==
    /\ txpc = "in_closure"
    /\ \E f \in ClosureResults, exc \in BOOLEAN :
        LET e == IF txOp.finish = "update_and_commit"
                 THEN TxUpdateAndCommit(tx, f, exc)
                 ELSE TxExecuteAndRollback(tx, f, exc) IN
        /\ fres' = f
        /\ txCalls' = txCalls \o e.calls
        /\ txRaised' = exc
        /\ tx' = e.tx
        /\ tret' = e.ret
    /\ txpc' = "done"
    /\ UNCHANGED txOp
    /\ UNCHANGED <<cursorVars, streamerVars, parVars>>

(***************************************************************************)
(* Parameters: the values, their clones and drops, the builders.           *)
(***************************************************************************)
Handles == 1..MaxHandles

ParInit ==
    /\ allocated = 0
    /\ owners = [h \in Handles |-> 0]
    /\ destroys = [h \in Handles |-> 0]
    /\ usedDestroyed = FALSE
    /\ pret = NoRet

\* No Parameters value is made while another specification runs.
ParIdle == ParInit

\* Drop for Parameters: the assertion holds, inner being never null nor
\* ever set to null; then CParameters_destroy(self.inner).
DropParameters(d, h) == [d EXCEPT ![h] = @ + 1]

\* Parameters::set_string
SetStringResult(key, value, exc) ==
    DatabaseCall(<<"Setting parameter", key, value>>, exc, "unit")

\* Parameters::empty
Empty ==
    /\ allocated < MaxHandles
    /\ \E exc \in BOOLEAN :
        LET r == DatabaseCall("Allocating parameters", exc, allocated + 1) IN
        /\ pret' = [op |-> "empty", res |-> r]
        /\ IF r.ok
           THEN /\ allocated' = allocated + 1
                /\ owners' = [owners EXCEPT ![r.val] = 1]
           ELSE UNCHANGED <<allocated, owners>>
    /\ UNCHANGED <<destroys, usedDestroyed>>
    /\ UNCHANGED <<cursorVars, streamerVars, txVars>>

\* #[derive(Clone)]: the new value's inner is the same pointer.
Clone ==
    /\ \E h \in Handles :
        /\ owners[h] >= 1
        /\ owners[h] + destroys[h] < MaxValues
        /\ owners' = [owners EXCEPT ![h] = @ + 1]
        /\ pret' = [op |-> "clone", handle |-> h]
    /\ UNCHANGED <<allocated, destroys, usedDestroyed>>
    /\ UNCHANGED <<cursorVars, streamerVars, txVars>>

\* A Parameters value goes out of scope.
Drop ==
    /\ \E h \in Handles :
        /\ owners[h] >= 1
        /\ owners' = [owners EXCEPT ![h] = @ - 1]
        /\ destroys' = DropParameters(destroys, h)
        /\ usedDestroyed' = (usedDestroyed \/ destroys[h] >= 1)
        /\ pret' = [op |-> "drop", handle |-> h]
    /\ UNCHANGED allocated
    /\ UNCHANGED <<cursorVars, streamerVars, txVars>>

\* Parameters::set_string(&self, ..)
SetString ==
    /\ \E h \in Handles, exc \in BOOLEAN :
        /\ owners[h] >= 1
        /\ usedDestroyed' = (usedDestroyed \/ destroys[h] >= 1)
        /\ pret' = [op |-> "set_string", handle |-> h,
                    res |-> SetStringResult("key", "value", exc)]
    /\ UNCHANGED <<allocated, owners, destroys>>
    /\ UNCHANGED <<cursorVars, streamerVars, txVars>>

\* Parameters::fact_domain(self, ..): set_string(..)?, then Ok(self).  When
\* set_string fails, self goes out of scope on the way out.
FactDomain ==
    /\ \E h \in Handles, exc \in BOOLEAN :
        LET r == SetStringResult("fact-domain", "all", exc) IN
        /\ owners[h] >= 1
        /\ usedDestroyed' = (usedDestroyed \/ destroys[h] >= 1)
        /\ IF r.ok
           THEN /\ pret' = [op |-> "fact_domain", handle |-> h, res |-> Ok(h)]
                /\ UNCHANGED <<owners, destroys>>
           ELSE /\ pret' = [op |-> "fact_domain", handle |-> h, res |-> r]
                /\ owners' = [owners EXCEPT ![h] = @ - 1]
                /\ destroys' = DropParameters(destroys, h)
    /\ UNCHANGED allocated
    /\ UNCHANGED <<cursorVars, streamerVars, txVars>>

ParNext ==
    \/ Empty
    \/ Clone
    \/ Drop
    \/ SetString
    \/ FactDomain

(***************************************************************************)
(* The cursor specification.                                               *)
(***************************************************************************)
RECURSIVE SeqsUpTo(_, _)
SeqsUpTo(S, n) ==
    IF n = 0 THEN {<<>>}
    ELSE LET shorter == SeqsUpTo(S, n - 1) IN
         shorter \cup {Append(s, x) : s \in {t \in shorter : Len(t) = n - 1}, x \in S}

CursorInit ==
    /\ rowMults \in SeqsUpTo(Multiplicities, MaxRows)
    /\ nSlots \in 0..MaxSlots
    /\ eArity \in 0..MaxArity
    /\ \E tbl \in [1..eArity -> 0..MaxSlots] :
          idxMem = [i \in 1..(eArity + 1) |-> IF i <= eArity THEN tbl[i] ELSE 0]
    /\ pos = 0
    /\ buf = [s \in 1..(nSlots + 2) |-> IF s = nSlots + 2 THEN Beyond ELSE 0]
    /\ pc = "open"
    /\ calls = <<>>
    /\ raised = FALSE
    /\ multiplicity = 0
    /\ arity = 0
    /\ arguments_buffer = Slice(NULL, 0)
    /\ indexes = NULL
    /\ scanReads = {}
    /\ oc = NoCursor
    /\ advLog = <<>>
    /\ ret = NoRet

Init == CursorInit /\ StreamerIdle /\ TxIdle /\ ParIdle

Next ==
    \/ Open
    \/ Arity
    \/ ArgumentsBuffer
    \/ ArgumentIndexes
    \/ ResourceId
    \/ Advance

vars == <<cursorVars, streamerVars, txVars, parVars>>

Spec == Init /\ [][Next]_vars

(***************************************************************************)
(* The streamer specification.                                             *)
(***************************************************************************)
\* The cursor while the streamer specification runs: one store, not opened.
CursorIdle ==
    /\ CursorInit
    /\ rowMults = <<>>
    /\ nSlots = 0
    /\ eArity = 0

StreamerSpecInit == CursorIdle /\ StreamerInit /\ TxIdle /\ ParIdle

ParSpecInit == CursorIdle /\ StreamerIdle /\ TxIdle /\ ParInit

ParSpec == ParSpecInit /\ [][ParNext]_vars

StreamerSpec == StreamerSpecInit /\ [][StreamerNext]_vars

(***************************************************************************)
(* The wrapper specification: a cursor is opened and used, and the         *)
(* wrappers are called on it; the closure may use the cursor.              *)
(***************************************************************************)
TxSpecInit ==
    /\ CursorInit
    /\ rowMults \in {<<>>, <<1>>}
    /\ nSlots = 1
    /\ eArity = 1
    /\ StreamerIdle
    /\ TxInit
    /\ ParIdle

TxNext ==
    \/ Open
    \/ Arity
    \/ ArgumentsBuffer
    \/ ArgumentIndexes
    \/ ResourceId
    \/ Advance
    \/ UpdateAndCommit
    \/ ExecuteAndRollback
    \/ ClosureReturns

TxSpec == TxSpecInit /\ [][TxNext]_vars

(***************************************************************************)
(* The client specification: one run is a session on a cursor, or a run of *)
(* the streamer.                                                           *)
(***************************************************************************)
ClientInit ==
    /\ CursorInit
    /\ rowMults \in {<<>>, <<1>>}
    /\ nSlots = 1
    /\ eArity = 1
    /\ StreamerInit
    /\ TxIdle
    /\ ParIdle

\* The streamer has not been started.
StreamerNotStarted == spc = "setup"

\* The cursor has not been opened, over the empty store.
CursorNotStarted == pc = "open" /\ rowMults = <<>> /\ idxMem[1] = 0

ClientNext ==
    \/ StreamerNotStarted /\ Open
    \/ StreamerNotStarted /\ Arity
    \/ StreamerNotStarted /\ ArgumentsBuffer
    \/ StreamerNotStarted /\ ArgumentIndexes
    \/ StreamerNotStarted /\ ResourceId
    \/ StreamerNotStarted /\ Advance
    \/ StreamerNotStarted /\ GetAnswerVariableName
    \/ CursorNotStarted /\ StreamerNext

ClientSpec == ClientInit /\ [][ClientNext]_vars

(***************************************************************************)
(* Properties of the cursor protocol.                                      *)
(***************************************************************************)
NewOrder == <<"CCursor_open", "CCursor_getArity", "CCursor_getArgumentsBuffer",
              "CCursor_getArgumentIndexes">>

NewTags == <<"opening a cursor", "getting the arity",
             "getting the arguments buffer", "getting the argument-indexes">>

InNew == pc \in {"open", "arity", "arguments_buffer", "argument_indexes", "failed"}

\* C1: new() issues open, get-arity, get-arguments-buffer and
\* get-argument-indexes in that order; a step is issued only when every
\* step before it succeeded, and when step k raises, new() stops there:
\* no OpenedCursor exists and the caller receives the error of step k.
C1_NewInOrderFailsFast ==
    /\ (InNew \/ ret.op = "new") =>
          /\ Len(calls) <= Len(NewOrder)
          /\ calls = SubSeq(NewOrder, 1, Len(calls))
    /\ (InNew /\ pc # "failed") =>
          /\ ~raised
          /\ oc = NoCursor
          /\ ret = NoRet
          /\ Len(calls) = CASE pc = "open" -> 0
                            [] pc = "arity" -> 1
                            [] pc = "arguments_buffer" -> 2
                            [] pc = "argument_indexes" -> 3
    /\ (InNew /\ raised) =>
          /\ pc = "failed"
          /\ oc = NoCursor
          /\ ret = [op |-> "new", res |-> Err(Exception(NewTags[Len(calls)]))]
    /\ pc = "failed" =>
          /\ oc = NoCursor
          /\ ret.op = "new" /\ ~ret.res.ok

C1_Witness ==
    /\ pc = "failed"
    /\ raised
    /\ calls = <<"CCursor_open", "CCursor_getArity">>

\* C2: when get-argument-indexes succeeds and yields a null pointer, new()
\* fails with CannotGetAnyArgumentIndexes carrying the query text, not with
\* the engine-exception kind, and no OpenedCursor exists.
C2_NullIndexesDistinctError ==
    (ret.op = "new" /\ calls = NewOrder /\ ~raised /\ indexes = NULL) =>
        /\ pc = "failed"
        /\ oc = NoCursor
        /\ ret.res = Err(CannotGetAnyArgumentIndexes(Query))
        /\ ret.res.err.kind # "Exception"

C2_Witness ==
    /\ ret.op = "new" /\ calls = NewOrder /\ ~raised /\ indexes = NULL
    /\ pc = "failed"

\* C3: resource_id(i) of an opened cursor fails (with the error kind the
\* code has for it, Unknown) whenever i >= arity, and whenever i < arity it
\* returns Ok(Some(id)) or Ok(None), never an error.
C3_ResourceIdRange ==
    ret.op = "resource_id" =>
        /\ ret.arg >= eArity => ret.res = Err(Unknown)
        /\ ret.arg < eArity =>
              /\ ret.res.ok
              /\ ret.res.val = None \/ ret.res.val.some

C3_Witness ==
    /\ ret.op = "resource_id"
    /\ eArity = 1
    /\ ret.arg = 1
    /\ ret.res = Err(Unknown)

\* C4: for i < arity, resource_id(i) is the cell of the current row that the
\* index table names: arguments_buffer[argument_indexes[i]] when that slot
\* is inside the exposed buffer, and an absence exactly when it is outside.
C4_ResourceIdThroughTable ==
    (ret.op = "resource_id" /\ ret.arg < eArity) =>
        LET slot == idxMem[ret.arg + 1] IN
        IF slot < oc.arguments_buffer.len
        THEN /\ ret.res = Ok(Some(buf[slot + 1]))
             /\ (pos <= Len(rowMults) /\ slot < nSlots) =>
                    ret.res.val.v = RowValue(pos, slot + 1)
        ELSE ret.res = Ok(None)

C4_Witness ==
    /\ ret.op = "resource_id"
    /\ ret.arg = 0
    /\ idxMem[1] = 1
    /\ pos = 2
    /\ ret.res.ok /\ ret.res.val.some
    /\ ret.res.val.v = RowValue(2, 2)

\* The first cell of mem, from p on, that holds zero.
FirstZero(mem, p) ==
    CHOOSE i \in p..Len(mem) : mem[i] = 0 /\ \A j \in p..(i - 1) : mem[j] # 0

\* C5: the arguments-buffer scan exposes exactly the cells before the first
\* zero cell: the sentinel is not counted, and the scan dereferences the
\* cells up to the sentinel and none after it.
C5_ScanStopsAtSentinel ==
    pc = "argument_indexes" =>
        LET z == FirstZero(buf, arguments_buffer.ptr) IN
        /\ arguments_buffer.ptr = 1
        /\ arguments_buffer.len = z - arguments_buffer.ptr
        /\ \A i \in 1..arguments_buffer.len : buf[i] # 0
        /\ scanReads = arguments_buffer.ptr..z

C5_Witness ==
    /\ pc = "argument_indexes"
    /\ arguments_buffer.len = 0
    /\ nSlots = 2
    /\ scanReads = {1}

\* The index table as the OpenedCursor sees it.
ArgumentIndexesView ==
    [i \in 1..oc.argument_indexes.len |-> idxMem[oc.argument_indexes.ptr + i - 1]]

\* C6: for every opened cursor, after open and after any advance, the
\* index table it holds has as many entries as the arity.
C6_IndexesLenIsArity ==
    oc # NoCursor =>
        /\ Len(ArgumentIndexesView) = oc.arity
        /\ oc.arity = eArity

C6_Witness ==
    /\ oc # NoCursor
    /\ oc.arity = 2
    /\ Len(advLog) = 2

\* The store of the scenario: arity 2, three rows of multiplicities 2, 1, 3,
\* both columns bound to slots of the buffer.
Scenario ==
    /\ rowMults = <<2, 1, 3>>
    /\ eArity = 2
    /\ nSlots = 2
    /\ idxMem[1] < nSlots /\ idxMem[2] < nSlots

\* Both columns resolve to identifiers of row r.
ResolvesOnRow(r) ==
    (ret.op = "resource_id" /\ ret.arg \in {0, 1}) =>
        /\ ret.res.ok
        /\ ret.res.val.some
        /\ ret.res.val.v # 0
        /\ ret.res.val.v = RowValue(r, idxMem[ret.arg + 1] + 1)

\* C7 as stated: in the scenario the successive advance() results are
\* 2, 1, 3, 0, and resource_id(0), resource_id(1) resolve to identifiers
\* after each of the first three.
C7_AdvanceYields2130 ==
    (Scenario /\ pc = "opened") =>
        /\ \A k \in 1..Len(advLog) : k <= 4 => advLog[k] = <<2, 1, 3, 0>>[k]
        /\ Len(advLog) \in 1..3 => ResolvesOnRow(Len(advLog))

\* C7 as amended: in the scenario opening returns the first row's
\* multiplicity 2, the successive advance() results are 1, 3, 0, and
\* resource_id(0), resource_id(1) resolve to identifiers of the current row
\* on each of the three rows, that is until the advance() that returns 0.
C7_OpenYields2AdvanceYields130 ==
    (Scenario /\ pc = "opened") =>
        /\ multiplicity = 2
        /\ ret.op = "new" => ret.res = Ok(<<"OpenedCursor", 2>>)
        /\ \A k \in 1..Len(advLog) : k <= 3 => advLog[k] = <<1, 3, 0>>[k]
        /\ Len(advLog) \in 0..2 => ResolvesOnRow(Len(advLog) + 1)

C7_Witness ==
    /\ Scenario
    /\ pc = "opened"
    /\ advLog = <<1, 3, 0>>

\* advance() has returned 0 on this opened cursor.
Exhausted == \E k \in 1..Len(advLog) : advLog[k] = 0

C14_AdvanceKeepsMetadata ==
    [][ret'.op = "advance" =>
          /\ calls' = <<"CCursor_advance">>
          /\ oc' = oc
          /\ idxMem' = idxMem
          /\ Len(buf') = Len(buf)
          /\ ~ret'.res.ok => (buf' = buf /\ pos' = pos /\ advLog' = advLog)]_vars

\* advance() has moved the cursor to a row whose values differ from the
\* row before, and the opened cursor still exposes the lengths fixed at open.
C14_Witness ==
    /\ pc = "opened"
    /\ ret.op = "advance"
    /\ ret.res.ok
    /\ ret.res.val # 0
    /\ pos = 2
    /\ nSlots >= 1
    /\ buf # RowBuffer(1)
    /\ oc.arguments_buffer.len = nSlots

(***************************************************************************)
(* Properties of the streaming protocol.                                   *)
(***************************************************************************)
CallOver == spc \in {"call_returned", "released", "done"}

\* C8: once the native call has returned, and the sink having reported no
\* error, the bytes the sink holds are the concatenation of the byte ranges
\* the engine passed to the write callback, in order, none added or dropped.
C8_SinkHoldsWhatEngineEmitted ==
    (CallOver /\ sinkErr = NoSinkErr) => sink = emitted

\* C9: when the sink reports an error on its k-th write, run() returns an
\* error to its caller, and the sink is not called again after that k-th
\* call.
C9_SinkErrorFailsRun ==
    sinkErr.op = "write" =>
        /\ sinkCalls = sinkErr.at
        /\ spc \notin {"aborted", "unwound"}
        /\ spc = "done" => (sret # NoRet /\ ~sret.ok)

\* A box is released: its value destroyed once and its allocation given back.
Released(cell) == cell.dropped = 1 /\ ~cell.allocated

\* C10: the callback context and the registration structure of an evaluate
\* call are each released exactly once after the native call has returned,
\* with an exception or without; they are released before evaluate()
\* inspects the result; and no callback reads the context after the call
\* has returned.
C10_ContextReleasedOnce ==
    /\ context.dropped <= 1 /\ stream.dropped <= 1
    /\ ~staleAccess
    /\ spc \in {"setup", "ready", "in_call", "call_returned"} =>
          context.dropped = 0 /\ stream.dropped = 0
    /\ (spc \in {"released", "done"} /\ context # NoCell) =>
          Released(context) /\ Released(stream)


(***************************************************************************)
(* Properties of the transaction wrappers.                                 *)
(***************************************************************************)
\* The wrapper named op has begun a transaction (begin succeeded).
Began(op) == txOp.op = op /\ tx # NoTx

\* C11: update_and_commit begins a new read-write transaction on the
\* cursor's own connection and runs the closure inside it.  When the closure
\* succeeds and the commit succeeds the transaction ends committed, nothing
\* is rolled back and the closure's value is returned; when the closure
\* fails the wrapper issues exactly one rollback and no commit, the
\* transaction never ends committed, and the closure's error is returned.
C11_UpdateAndCommitCommitsOrRollsBackOnce ==
    Began("update_and_commit") =>
        /\ tx.kind = "read-write"
        /\ tx.conn = CursorConnection
        /\ txpc = "in_closure" => tx.state = "active" /\ txCalls = <<"begin">>
        /\ (txpc = "done" /\ fres.ok /\ ~txRaised) =>
              /\ txCalls = <<"begin", "commit">>
              /\ tx.state = "committed"
              /\ tret = fres
        /\ (txpc = "done" /\ ~fres.ok) =>
              /\ txCalls = <<"begin", "rollback">>
              /\ tx.state # "committed"
              /\ ~txRaised => tx.state = "rolled-back"
              /\ tret = fres

\* update_and_commit has returned the closure's error after one rollback,
\* the closure having advanced the cursor.
C11_Witness ==
    /\ Began("update_and_commit")
    /\ txpc = "done"
    /\ ~fres.ok
    /\ tx.state = "rolled-back"
    /\ tret = fres
    /\ ret.op = "advance"

\* C12: execute_and_rollback begins a new read-only transaction on the
\* cursor's own connection and never commits: whether the closure succeeds
\* or fails, the wrapper issues one rollback and no commit, and the
\* transaction ends rolled back, never committed.
C12_ExecuteAndRollbackNeverCommits ==
    Began("execute_and_rollback") =>
        /\ tx.kind = "read-only"
        /\ tx.conn = CursorConnection
        /\ tx.state # "committed"
        /\ \A k \in 1..Len(txCalls) : txCalls[k] # "commit"
        /\ txpc = "in_closure" => tx.state = "active"
        /\ txpc = "done" =>
              /\ txCalls = <<"begin", "rollback">>
              /\ ~txRaised => tx.state = "rolled-back"

\* execute_and_rollback has rolled back a closure that succeeded.
C12_Witness ==
    /\ Began("execute_and_rollback")
    /\ txpc = "done"
    /\ fres.ok
    /\ tx.state = "rolled-back"
    /\ tret = fres


(***************************************************************************)
(* Properties of the setup of Streamer::evaluate.                          *)
(***************************************************************************)
\* evaluate() has failed in its setup at one of the three `?` steps.
SetupFailed ==
    \E step \in EvaluateSetupSteps : sret = Err(SetupError(step))

\* The native evaluate call has been issued.
EvaluateIssued ==
    \E k \in 1..Len(ncalls) : ncalls[k] = "CDataStoreConnection_evaluateStatement"

\* C16: evaluate() sets up the statement text, the parameters with
\* fact-domain=all and the format name first.  When one of these steps has
\* failed, the callback context and the registration are not allocated, the
\* native evaluate call has not been issued, and the sink has received no
\* write and no flush; and they are allocated, or the call issued, only
\* after the parameters were created and fact-domain was set on them.
C16_SetupFailureStopsEvaluate ==
    /\ SetupFailed =>
          /\ spc = "done"
          /\ context = NoCell /\ stream = NoCell
          /\ ~EvaluateIssued
          /\ sinkCalls = 0 /\ nFlush = 0
          /\ sink = <<>> /\ emitted = <<>>
    /\ (context.allocated \/ stream.allocated \/ EvaluateIssued \/ sinkCalls > 0) =>
          /\ Len(ncalls) >= 3
          /\ SubSeq(ncalls, 1, 3) =
                <<"CParameters_newEmptyParameters", "CParameters_setString",
                  "CDataStoreConnection_evaluateStatement">>

\* evaluate() has returned the error of a failing fact_domain(): the handle
\* was created, the string set, the handle destroyed, and nothing else.
C16_Witness ==
    /\ spc = "done"
    /\ sret = Err(SetupError("fact_domain"))
    /\ ncalls = <<"CParameters_newEmptyParameters", "CParameters_setString",
                  "CParameters_destroy">>
    /\ context = NoCell


(***************************************************************************)
(* Properties of the engine boundary.                                      *)
(***************************************************************************)
\* No entry of the log occurs in it twice.
NoRepeat(log) ==
    \A i, j \in 1..Len(log) : log[i] = log[j] => i = j

\* The description database_call! is given for each native call.
CallTag(call) ==
    CASE call = "CCursor_open" -> "opening a cursor"
      [] call = "CCursor_getArity" -> "getting the arity"
      [] call = "CCursor_getArgumentsBuffer" -> "getting the arguments buffer"
      [] call = "CCursor_getArgumentIndexes" -> "getting the argument-indexes"
      [] call = "CCursor_advance" -> "advancing the cursor"
      [] call = "CCursor_getAnswerVariableName" -> "getting a variable name"
      [] call = "CDataStoreConnection_evaluateStatement" -> "evaluating a statement"

\* The client operation a native call of the cursor belongs to.
CallOp(call) ==
    CASE call = "CCursor_advance" -> "advance"
      [] call = "CCursor_getAnswerVariableName" -> "get_answer_variable_name"
      [] OTHER -> "new"

C17_HandleDestroyedOnce ==
    /\ \A h \in Handles : destroys[h] <= 1
    /\ \A h \in 1..allocated : owners[h] = 0 => destroys[h] = 1
    /\ ~usedDestroyed

====
